---- MODULE Spec2Model ----
(***************************************************************************)
(* Timesheet reconciliation between Connecteam (CT) and Everee (Payroll).  *)
(*                                                                         *)
(* Two Lambda handlers are modelled from their source:                     *)
(*   - the CT webhook handler  (src/connecteam/.../main.py), which         *)
(*     normalises an event, classifies action type and sync state, upserts *)
(*     the row and dispatches to the Payroll handler and/or the scheduler; *)
(*   - the Payroll handler     (src/everee/.../main.py), which creates,    *)
(*     delete-then-recreates or deletes the Everee shift and finally sets  *)
(*     the stored sync state to SENT.                                      *)
(***************************************************************************)
EXTENDS Integers, Sequences, FiniteSets, TLC

VARIABLES
    now,        \* wall clock, whole seconds
    ctStore,    \* table operations.webhook_ct_timesheet, one row per time_activity_id
    evStore,    \* table operations.webhook_everee_timesheet, rows keyed by worked_shift_id
    loadSeq,    \* next load_dt stamp handed out on insert
    payroll,    \* shift ids that are live in Everee
    nextShift,  \* next shift id Everee assigns
    payrollQ,   \* payloads in flight to the Payroll handler (InvocationType='Event')
    schedQ,     \* payloads in flight to the scheduler function
    triggers,   \* deferred triggers registered with the scheduler
    ct,         \* the CT handler invocation in progress
    ev,         \* the Payroll handler invocation in progress
    delivered,  \* number of webhook deliveries so far
    res         \* inputs and result of one resolver evaluation (SpecResolver)

vars == <<now, ctStore, evStore, loadSeq, payroll, nextShift, payrollQ, schedQ,
          triggers, ct, ev, delivered, res>>

----------------------------------------------------------------------------
(* Bounds of the model *)

MaxNow == 1
MaxTs == 1
MaxShift == 3
MaxDeliveries == 2

Keys == {"A1"}
Users == {"u1", "u2"}
EventTypes == {"create", "edit", "delete", "declined"}
ActivityTypes == {"shift"}
WorkerDetails == {"none", "noids", "ids"}
NoTs == -1
Null == "null"
SyncStates == {Null, "SCHEDULED", "SENT", "DELETE"}
ActionTypes == {"create", "update", "delete"}
Timestamps == 0..MaxTs

----------------------------------------------------------------------------
(* Canonical record normaliser *)

\* event_type.str.contains('delete') or .str.contains('declined')
IsDeleteEvent(event_type) == event_type \in {"delete", "declined"}

\* compute_md5 over the sk columns: the digest is modelled by the tuple it
\* hashes (delete and declined events hash the identity columns only).
compute_md5(e) ==
    IF IsDeleteEvent(e.event_type)
    THEN <<e.activity_type, e.event_type, e.user, e.key, NoTs>>
    ELSE <<e.activity_type, e.event_type, e.user, e.key, e.end_ts>>

\* process_timesheet_data: a delete or declined event keeps no end_timestamp
\* column; any other event keeps it.
process_timesheet_data(e) ==
    [key |-> e.key, user |-> e.user, event_type |-> e.event_type,
     activity_type |-> e.activity_type,
     end_ts |-> IF IsDeleteEvent(e.event_type) THEN NoTs ELSE e.end_ts,
     sk |-> compute_md5(e)]

----------------------------------------------------------------------------
(* Action/State resolver *)

NoRow == [present |-> FALSE, user |-> "", event_type |-> "", end_ts |-> NoTs,
          sk |-> <<"", "", "", "", NoTs>>, action |-> Null, sync_state |-> Null]

\* check_if_ct_exist: select ... where connecteam_user_id = u and time_activity_id = k
check_if_ct_exist(store, user, key) ==
    IF store[key].present /\ store[key].user = user THEN store[key] ELSE NoRow

\* DB_QUERY_MANAGER.fetch_from_db: a query that raises is logged and an
\* empty frame is returned in its place
fetch_from_db(dbok, result, empty) == IF dbok THEN result ELSE empty

\* a resolver that lets a delete event without a prior row through as delete
derive_everee_action_type_mut(ct_exist, df) ==
    IF IsDeleteEvent(df.event_type)
    THEN [action |-> "delete", prior |-> ct_exist.sync_state, prior_sk |-> ct_exist.sk,
          found |-> ct_exist.present]
    ELSE IF ct_exist.present
    THEN [action |-> "update", prior |-> ct_exist.sync_state, prior_sk |-> ct_exist.sk,
          found |-> TRUE]
    ELSE [action |-> "create", prior |-> Null, prior_sk |-> NoRow.sk, found |-> FALSE]

\* a classifier that calls a delete event with a stored row a create and
\* carries the stored sync state forward
derive_everee_action_type_mut2(ct_exist, df) ==
    IF ct_exist.present
    THEN [action |-> IF IsDeleteEvent(df.event_type) THEN "create" ELSE "update",
          prior |-> ct_exist.sync_state, prior_sk |-> ct_exist.sk, found |-> TRUE]
    ELSE [action |-> "create", prior |-> Null, prior_sk |-> NoRow.sk, found |-> FALSE]

\* derive_everee_action_type, given the frame check_if_ct_exist returned:
\* the action and the prior sync state carried forward
derive_everee_action_type(ct_exist, df) ==
    IF ct_exist.present
    THEN IF IsDeleteEvent(df.event_type)
         THEN [action |-> "delete", prior |-> ct_exist.sync_state, prior_sk |-> ct_exist.sk,
               found |-> TRUE]
         ELSE [action |-> "update", prior |-> ct_exist.sync_state, prior_sk |-> ct_exist.sk,
               found |-> TRUE]
    ELSE [action |-> "create", prior |-> Null, prior_sk |-> NoRow.sk, found |-> FALSE]

\* a resolver that defers a shift ending exactly now (>= for >)
determine_everee_sync_state_mut(action, prior, end_ts, t) ==
    IF end_ts # NoTs
    THEN IF end_ts >= t /\ action # "delete" THEN "SCHEDULED"
         ELSE IF action = "delete" THEN "DELETE"
         ELSE "SENT"
    ELSE IF action \in {"create", "delete"} /\ prior = "SCHEDULED" THEN "DELETE"
         ELSE Null

\* a resolver whose retraction rule forgets the delete action
determine_everee_sync_state_mut2(action, prior, end_ts, t) ==
    IF end_ts # NoTs
    THEN IF end_ts > t /\ action # "delete" THEN "SCHEDULED"
         ELSE IF action = "delete" THEN "DELETE"
         ELSE "SENT"
    ELSE IF action \in {"create"} /\ prior = "SCHEDULED" THEN "DELETE"
         ELSE Null

\* determine_everee_sync_state(row), reading the clock t
determine_everee_sync_state(action, prior, end_ts, t) ==
    IF end_ts # NoTs
    THEN IF end_ts > t /\ action # "delete" THEN "SCHEDULED"
         ELSE IF action = "delete" THEN "DELETE"
         ELSE "SENT"
    ELSE IF action \in {"create", "delete"} /\ prior = "SCHEDULED" THEN "DELETE"
         ELSE Null

----------------------------------------------------------------------------
(* CT webhook handler: src/connecteam/timesheets/webhook_ct_timesheet/main.py *)

Events == [key : Keys, user : Users, event_type : EventTypes,
           activity_type : ActivityTypes, end_ts : Timestamps]

NoDf == [key |-> "", user |-> "", event_type |-> "", activity_type |-> "",
         end_ts |-> NoTs, sk |-> NoRow.sk]

CtIdle == [pc |-> "idle", df |-> NoDf, worker |-> "none", action |-> Null,
           prior |-> Null, prior_sk |-> NoRow.sk, found |-> FALSE, state |-> Null,
           t |-> 0, invoked |-> <<>>, status |-> 0, lookup_ok |-> TRUE]

\* f"submit_timesheet_{everee_payload['ct_time_activity_id']}"
schedule_name(key) == "submit_timesheet_" \o key

\* everee_timesheet_payload: the payload handed to the downstream functions
everee_timesheet_payload(c) ==
    [key |-> c.df.key, worker |-> c.df.user, event_type |-> c.df.event_type,
     action |-> c.action, sync_state |-> c.state, end_ts |-> c.df.end_ts,
     ct_timesheet_id |-> "", schedule_name |-> "", schedule_action |-> ""]

\* what retrieve_worker_and_pay_details makes of "no worker found": the
\* delete branch and the time_off branch return an empty frame, the shift
\* branch falls off its end and returns None, on which .empty raises.
NoWorkerStatus(df) ==
    IF IsDeleteEvent(df.event_type) \/ df.activity_type = "time_off" THEN 0 ELSE 500

\* lambda_handler lines 32-38: transform the webhook, look the worker up
CTReceive(e, w) ==
    /\ ct.pc = "idle"
    /\ delivered < MaxDeliveries
    /\ delivered' = delivered + 1
    /\ LET df == process_timesheet_data(e) IN
       ct' = IF w = "none"
             THEN [CtIdle EXCEPT !.pc = "done", !.df = df, !.worker = w,
                                 !.status = NoWorkerStatus(df)]
             ELSE [CtIdle EXCEPT !.pc = "resolve", !.df = df, !.worker = w]
    /\ UNCHANGED <<now, ctStore, evStore, loadSeq, payroll, nextShift, payrollQ,
                   schedQ, triggers, ev, res>>

\* lambda_handler lines 39-42: classify action type, then sync state
\* (lookup_ok records whether the store answered the lookup query)
CTResolve(dbok) ==
    /\ ct.pc = "resolve"
    /\ LET ct_exist == fetch_from_db(dbok, check_if_ct_exist(ctStore, ct.df.user, ct.df.key),
                                    NoRow)
           d == derive_everee_action_type(ct_exist, ct.df) IN
       ct' = [ct EXCEPT !.pc = "upsert", !.action = d.action, !.prior = d.prior,
                        !.prior_sk = d.prior_sk, !.found = d.found, !.t = now,
                        !.lookup_ok = dbok,
                        !.state = determine_everee_sync_state(d.action, d.prior,
                                                              ct.df.end_ts, now)]
    /\ UNCHANGED <<now, ctStore, evStore, loadSeq, payroll, nextShift, payrollQ,
                   schedQ, triggers, ev, delivered, res>>

\* batch_upsert ... ON CONFLICT (time_activity_id) DO UPDATE SET every column
\* of the frame: a column the frame lacks keeps its stored value.
batch_upsert_ct(store, c) ==
    [store EXCEPT ![c.df.key] =
        [present |-> TRUE, user |-> c.df.user, event_type |-> c.df.event_type,
         end_ts |-> IF IsDeleteEvent(c.df.event_type) THEN store[c.df.key].end_ts
                    ELSE c.df.end_ts,
         sk |-> c.df.sk, action |-> c.action, sync_state |-> c.state]]

\* the handler returns its result; the invocation's locals are gone
CTReturn ==
    /\ ct.pc = "done"
    /\ ct' = CtIdle
    /\ UNCHANGED <<now, ctStore, evStore, loadSeq, payroll, nextShift, payrollQ,
                   schedQ, triggers, ev, delivered, res>>

\* everee_timesheet_exist: where worker_id = w and ct_time_activity_id = k
everee_timesheet_exist(store, worker_id, ct_time_activity_id) ==
    \E r \in store : r.worker = worker_id /\ r.key = ct_time_activity_id

\* a handler that hands everee_timesheet_exist the worker and activity ids
check_everee_timesheet_mut(store) == everee_timesheet_exist(store, ct.df.user, ct.df.key)

\* lambda_handler line 45 hands the function the frame, not the payload:
\* DataFrame.get("workerId") and .get("ct_time_activity_id") find no such
\* column and give None, so the query compares both columns with 'None'.
check_everee_timesheet(store) == everee_timesheet_exist(store, "None", "None")

\* a handler that dispatches without testing worker_id / external_worker_id
CTUpsert_mut(ok) ==
    /\ ct.pc = "upsert"
    /\ ctStore' = IF ok THEN batch_upsert_ct(ctStore, ct) ELSE ctStore
    /\ ct' = IF ok
             THEN [ct EXCEPT !.pc = "dispatch"]
             ELSE [ct EXCEPT !.pc = "done", !.status = 0]
    /\ UNCHANGED <<now, evStore, loadSeq, payroll, nextShift, payrollQ, schedQ,
                   triggers, ev, delivered, res>>

\* lambda_handler lines 44-48: upsert, then the guards on df_status and ids
CTUpsert(ok) ==
    /\ ct.pc = "upsert"
    /\ ctStore' = IF ok THEN batch_upsert_ct(ctStore, ct) ELSE ctStore
    /\ ct' = IF ok /\ ct.worker = "ids"
             THEN [ct EXCEPT !.pc = "dispatch"]
             ELSE [ct EXCEPT !.pc = "done", !.status = 0]
    /\ UNCHANGED <<now, evStore, loadSeq, payroll, nextShift, payrollQ, schedQ,
                   triggers, ev, delivered, res>>

\* a dispatch that invokes the Payroll function for a deferred record too
Dispatch_mut(state, exists) ==
    IF state \in {"SCHEDULED", "DELETE"} THEN <<"payroll", "scheduler">>
    ELSE <<"payroll">>

\* lambda_handler lines 55-70: which functions are invoked, in order
Dispatch(state, exists) ==
    IF state \in {"SCHEDULED", "DELETE"} /\ exists THEN <<"payroll", "scheduler">>
    ELSE IF state \in {"SCHEDULED", "DELETE"} /\ ~exists THEN <<"scheduler">>
    ELSE <<"payroll">>

InSeq(x, s) == \E i \in 1..Len(s) : s[i] = x

CTDispatch ==
    /\ ct.pc = "dispatch"
    /\ LET p0 == everee_timesheet_payload(ct)
           p == IF ct.state = "DELETE"
                THEN [p0 EXCEPT !.schedule_action = "DELETE",
                                !.schedule_name = schedule_name(p0.key)]
                ELSE p0
           inv == Dispatch(ct.state, check_everee_timesheet(evStore))
       IN /\ ct' = [ct EXCEPT !.pc = "done", !.invoked = inv, !.status = 200]
          /\ payrollQ' = IF InSeq("payroll", inv) THEN payrollQ \cup {p} ELSE payrollQ
          /\ schedQ' = IF InSeq("scheduler", inv) THEN schedQ \cup {p} ELSE schedQ
    /\ UNCHANGED <<now, ctStore, evStore, loadSeq, payroll, nextShift, triggers,
                   ev, delivered, res>>

----------------------------------------------------------------------------
(* Everee API and the webhook_everee_timesheet table *)

NoShift == [n |-> 0, null_of |-> ""]
RealShift(n) == [n |-> n, null_of |-> ""]
\* ct_time_activity_id + '_' + 'Null'
PlaceholderShift(key) == [n |-> 0, null_of |-> key]

\* rows of webhook_everee_timesheet for one activity id
RowsOf(store, key) == {r \in store : r.key = key}

\* SELECT ... where ct_time_activity_id = k ORDER BY load_dt DESC LIMIT 1
\* (load_dt is stamped by the table on insert; the frame carries no load_dt)
LatestRow(store, key) ==
    CHOOSE r \in RowsOf(store, key) : \A q \in RowsOf(store, key) : q.load_dt <= r.load_dt

\* batch_upsert ... ON CONFLICT (worked_shift_id) DO UPDATE
batch_upsert_ev(store, seq, row) ==
    IF \E r \in store : r.worked_shift_id = row.worked_shift_id
    THEN {IF r.worked_shift_id = row.worked_shift_id
          THEN [row EXCEPT !.load_dt = r.load_dt] ELSE r : r \in store}
    ELSE store \cup {[row EXCEPT !.load_dt = seq]}

\* status codes Everee can answer a DELETE with; 0 stands for the request raising
DeleteResponses(live, id) == IF id \in live THEN {204, 400, 0} ELSE {404, 400, 0}

\* status codes Everee can answer a POST with; 0 stands for no response
\* object (everee_create_shift swallows the exception and returns None)
CreateResponses == {200, 400, 0}

\* a payload builder that hands 'override_rate' to delete-type payloads too
HasCreateFields_mut(p) == TRUE

\* the create payload carries 'override_rate' only for create/edit events:
\* for a delete-type payload timesheet_payload['override_rate'] raises
\* KeyError inside everee_create_shift, which swallows it and returns None
HasCreateFields(p) == ~IsDeleteEvent(p.event_type)

----------------------------------------------------------------------------
(* Payroll handler: src/everee/timesheet/webhook_everee_timesheet/main.py *)

NoPayload == [key |-> "", worker |-> "", event_type |-> "", action |-> Null,
              sync_state |-> Null, end_ts |-> NoTs, ct_timesheet_id |-> "",
              schedule_name |-> "", schedule_action |-> ""]

EvIdle == [pc |-> "idle", p |-> NoPayload, found |-> FALSE, wsid |-> NoShift,
           del_code |-> -1, create_code |-> -1, new_id |-> NoShift,
           sync_sts |-> FALSE, trace |-> <<>>, status |-> 0, on_file |-> FALSE]

\* lambda_handler lines 28-38, 62: read the payload, branch on everee_action_type
EvStart(m) ==
    /\ ev.pc = "idle"
    /\ m \in payrollQ
    /\ payrollQ' = payrollQ \ {m}
    /\ ev' = [EvIdle EXCEPT !.p = m,
                            !.pc = IF m.action = "create" THEN "create"
                                   ELSE IF m.action \in {"update", "delete"} THEN "process_delete"
                                   ELSE "coord"]
    /\ UNCHANGED <<now, ctStore, evStore, loadSeq, payroll, nextShift, schedQ,
                   triggers, ct, delivered, res>>

\* a handler whose delete branch returns early, without a result, when
\* process_delete found nothing to delete
AfterProcessDelete_mut(action, delete_shift_res) ==
    IF action = "update"
    THEN IF delete_shift_res \in {"success", "bad request"} THEN "persist_delete" ELSE "create"
    ELSE IF delete_shift_res = "success" THEN "persist_delete"
         ELSE IF delete_shift_res = "none" THEN "done" ELSE "coord"

\* where the handler goes after process_delete returned (a tuple or None):
\* the update branch tests `delete_shift_res in ["success", "bad request"]`
\* and the delete branch `delete_shift_res == "success"`; neither a tuple
\* nor None equals a string, so update always takes its else (create only)
\* and delete never persists: lines 42-49 and 65-67 are never executed, nor
\* is the declined branch at lines 55-60, which the update test shadows.
AfterProcessDelete(action, delete_shift_res) ==
    IF action = "update"
    THEN IF delete_shift_res \in {"success", "bad request"} THEN "persist_delete" ELSE "create"
    ELSE IF delete_shift_res = "success" THEN "persist_delete" ELSE "coord"

\* process_delete: look the latest row up, and if there is one DELETE its shift
\* (on_file records whether the table held a row for the activity)
EvProcessDelete(dbok, code) ==
    /\ ev.pc = "process_delete"
    /\ LET rows == fetch_from_db(dbok, RowsOf(evStore, ev.p.key), {}) IN
       IF rows = {}
       THEN /\ code = 0
            /\ ev' = [ev EXCEPT !.pc = AfterProcessDelete(ev.p.action, "none"),
                                !.on_file = RowsOf(evStore, ev.p.key) # {},
                                !.trace = Append(@, "lookup")]
            /\ UNCHANGED payroll
       ELSE LET id == LatestRow(evStore, ev.p.key).worked_shift_id IN
            /\ code \in DeleteResponses(payroll, id)
            /\ payroll' = IF code = 204 THEN payroll \ {id} ELSE payroll
            /\ ev' = IF code = 0
                     THEN [ev EXCEPT !.pc = "done", !.status = 500, !.found = TRUE,
                                     !.on_file = TRUE,
                                     !.trace = Append(Append(@, "lookup"), "delete")]
                     ELSE [ev EXCEPT !.pc = AfterProcessDelete(ev.p.action, "tuple"),
                                     !.found = TRUE, !.wsid = id, !.del_code = code,
                                     !.on_file = TRUE,
                                     !.trace = Append(Append(@, "lookup"), "delete")]
    /\ UNCHANGED <<now, ctStore, evStore, loadSeq, nextShift, payrollQ, schedQ,
                   triggers, ct, delivered, res>>

\* everee_create_shift: POST the shift
EvCreate(code) ==
    /\ ev.pc = "create"
    /\ code \in CreateResponses
    /\ code = 200 => nextShift <= MaxShift
    /\ IF ~HasCreateFields(ev.p)
       THEN /\ code = 0
            /\ ev' = [ev EXCEPT !.pc = "coord", !.create_code = 0]
            /\ UNCHANGED <<payroll, nextShift>>
       ELSE /\ payroll' = IF code = 200 THEN payroll \cup {RealShift(nextShift)} ELSE payroll
            /\ nextShift' = IF code = 200 THEN nextShift + 1 ELSE nextShift
            /\ ev' = [ev EXCEPT !.pc = IF code = 0 THEN "coord" ELSE "persist_create",
                                !.create_code = code,
                                !.new_id = IF code = 200 THEN RealShift(nextShift) ELSE NoShift,
                                !.trace = Append(@, "create")]
    /\ UNCHANGED <<now, ctStore, evStore, loadSeq, payrollQ, schedQ, triggers,
                   ct, delivered, res>>

\* process_res: the row built from the create response.  A failed response
\* is filed under the worked_shift_id column process_delete left in the
\* frame, or under the placeholder when the frame has no such column.
process_res(e) ==
    [worked_shift_id |-> IF e.create_code = 200 THEN e.new_id
                         ELSE IF e.found THEN e.wsid
                         ELSE PlaceholderShift(e.p.key),
     key |-> e.p.key, worker |-> e.p.worker, status_code |-> e.create_code,
     load_dt |-> 0]

\* insert_to_db of the create outcome (lines 37, 49, 53)
EvPersistCreate(ok) ==
    /\ ev.pc = "persist_create"
    /\ LET row == process_res(ev) IN
       /\ evStore' = IF ok THEN batch_upsert_ev(evStore, loadSeq, row) ELSE evStore
       /\ loadSeq' = IF ok /\ ~\E r \in evStore : r.worked_shift_id = row.worked_shift_id
                     THEN loadSeq + 1 ELSE loadSeq
    /\ ev' = [ev EXCEPT !.pc = "coord",
                        !.trace = IF ok THEN Append(@, "persist_create") ELSE @]
    /\ UNCHANGED <<now, ctStore, payroll, nextShift, payrollQ, schedQ, triggers,
                   ct, delivered, res>>

\* an update that writes a state other than SENT
update_sync_state_mut(store, id) ==
    [k \in Keys |-> IF k = id /\ store[k].present
                    THEN [store[k] EXCEPT !.sync_state = "CANCEL"] ELSE store[k]]

\* update_sync_state: UPDATE ... SET everee_sync_state = 'SENT' WHERE time_activity_id = id
update_sync_state(store, id) ==
    [k \in Keys |-> IF k = id /\ store[k].present
                    THEN [store[k] EXCEPT !.sync_state = "SENT"] ELSE store[k]]

\* lambda_handler lines 72-75: set the sync state, then read schedule_name
EvCoord(ok) ==
    /\ ev.pc = "coord"
    /\ IF ev.p.sync_state \in {"SCHEDULED", "DELETE"} /\ ev.p.ct_timesheet_id # ""
       THEN /\ ctStore' = IF ok THEN update_sync_state(ctStore, ev.p.ct_timesheet_id)
                          ELSE ctStore
            /\ ev' = IF ev.p.schedule_name = ""
                     THEN [ev EXCEPT !.pc = "done", !.status = 500, !.sync_sts = ok,
                                     !.trace = IF ok THEN Append(@, "set_sent") ELSE @]
                     ELSE IF ok
                     THEN [ev EXCEPT !.pc = "notify", !.sync_sts = TRUE,
                                     !.trace = Append(@, "set_sent")]
                     ELSE [ev EXCEPT !.pc = "done", !.status = 200]
       ELSE /\ ok
            /\ ev' = [ev EXCEPT !.pc = "done", !.status = 200]
            /\ UNCHANGED ctStore
    /\ UNCHANGED <<now, evStore, loadSeq, payroll, nextShift, payrollQ, schedQ,
                   triggers, ct, delivered, res>>

\* lambda_handler lines 76-83: ask the scheduler to delete the schedule
EvNotify ==
    /\ ev.pc = "notify"
    /\ schedQ' = schedQ \cup {[NoPayload EXCEPT !.key = ev.p.key,
                                                !.schedule_action = "DELETE",
                                                !.schedule_name = ev.p.schedule_name]}
    /\ ev' = [ev EXCEPT !.pc = "done", !.status = 200, !.trace = Append(@, "cancel")]
    /\ UNCHANGED <<now, ctStore, evStore, loadSeq, payroll, nextShift, payrollQ,
                   triggers, ct, delivered, res>>

\* the handler returns its result; the invocation's locals are gone
EvReturn ==
    /\ ev.pc = "done"
    /\ ev' = EvIdle
    /\ UNCHANGED <<now, ctStore, evStore, loadSeq, payroll, nextShift, payrollQ,
                   schedQ, triggers, ct, delivered, res>>

----------------------------------------------------------------------------
(* Scheduler function (EVENTBRIDGE_FUNCTION_NAME): its code is not part of *)
(* the sources; modelled from the interface the specification gives it:   *)
(* create-or-replace a named trigger, delete by name, fire once at the    *)
(* shift end and redeliver the payload to the Payroll handler.            *)

TriggerNamed(name) == {t \in triggers : t.name = name}

SchedApply(m, ok) ==
    /\ m \in schedQ
    /\ schedQ' = schedQ \ {m}
    /\ triggers' =
         IF ~ok THEN triggers
         ELSE IF m.schedule_action = "DELETE"
         THEN triggers \ TriggerNamed(m.schedule_name)
         ELSE (triggers \ TriggerNamed(schedule_name(m.key)))
              \cup {[name |-> schedule_name(m.key), payload |-> m, fired |-> FALSE]}
    /\ UNCHANGED <<now, ctStore, evStore, loadSeq, payroll, nextShift, payrollQ,
                   ct, ev, delivered, res>>

TriggerFire(t) ==
    /\ t \in triggers
    /\ ~t.fired
    /\ t.payload.end_ts <= now
    /\ triggers' = (triggers \ {t}) \cup {[t EXCEPT !.fired = TRUE]}
    /\ payrollQ' = payrollQ \cup {[t.payload EXCEPT !.ct_timesheet_id = t.payload.key,
                                                    !.schedule_name = t.name]}
    /\ UNCHANGED <<now, ctStore, evStore, loadSeq, payroll, nextShift, schedQ,
                   ct, ev, delivered, res>>

Tick ==
    /\ now < MaxNow
    /\ now' = now + 1
    /\ UNCHANGED <<ctStore, evStore, loadSeq, payroll, nextShift, payrollQ, schedQ,
                   triggers, ct, ev, delivered, res>>

----------------------------------------------------------------------------
(* The system *)

NoRes == [action |-> Null, prior |-> Null, end_ts |-> NoTs, t |-> 0,
          state |-> Null, done |-> FALSE]

Init ==
    /\ now = 0
    /\ ctStore = [k \in Keys |-> NoRow]
    /\ evStore = {}
    /\ loadSeq = 1
    /\ payroll = {}
    /\ nextShift = 1
    /\ payrollQ = {}
    /\ schedQ = {}
    /\ triggers = {}
    /\ ct = CtIdle
    /\ ev = EvIdle
    /\ delivered = 0
    /\ res = NoRes

\* No handler invocation is in progress
Quiet == ct.pc = "idle" /\ ev.pc = "idle"

\* No payload is in flight to a downstream function
Drained == payrollQ = {} /\ schedQ = {}

\* Invocations are taken one at a time: a handler starts when the other is
\* idle, so handlers interleave at the level of whole invocations and of
\* the messages in flight between them; a webhook is taken up when the
\* payloads of the previous one have been handed over.
Next ==
    \/ \E e \in Events, w \in WorkerDetails : Quiet /\ Drained /\ CTReceive(e, w)
    \/ \E dbok \in BOOLEAN : CTResolve(dbok)
    \/ \E ok \in BOOLEAN : CTUpsert(ok)
    \/ CTDispatch
    \/ CTReturn
    \/ \E m \in payrollQ : Quiet /\ EvStart(m)
    \/ \E dbok \in BOOLEAN, code \in {0, 204, 400, 404} : EvProcessDelete(dbok, code)
    \/ \E code \in CreateResponses : EvCreate(code)
    \/ \E ok \in BOOLEAN : EvPersistCreate(ok)
    \/ \E ok \in BOOLEAN : EvCoord(ok)
    \/ EvNotify
    \/ EvReturn
    \/ \E m \in schedQ, ok \in BOOLEAN : Quiet /\ SchedApply(m, ok)
    \/ \E t \in triggers : Quiet /\ TriggerFire(t)
    \/ Quiet /\ Tick

Spec == Init /\ [][Next]_vars

----------------------------------------------------------------------------
(* The resolver on its own: every combination of its inputs *)

ResolverInputs ==
    [action : ActionTypes, prior : SyncStates, end_ts : {NoTs} \cup Timestamps,
     t : 0..MaxNow, state : {Null}, done : {FALSE}]

InitResolver ==
    /\ now = 0
    /\ ctStore = [k \in Keys |-> NoRow]
    /\ evStore = {}
    /\ loadSeq = 1
    /\ payroll = {}
    /\ nextShift = 1
    /\ payrollQ = {}
    /\ schedQ = {}
    /\ triggers = {}
    /\ ct = CtIdle
    /\ ev = EvIdle
    /\ delivered = 0
    /\ res \in ResolverInputs

Resolve ==
    /\ ~res.done
    /\ res' = [res EXCEPT !.done = TRUE,
                          !.state = determine_everee_sync_state(res.action, res.prior,
                                                                res.end_ts, res.t)]
    /\ UNCHANGED <<now, ctStore, evStore, loadSeq, payroll, nextShift, payrollQ,
                   schedQ, triggers, ct, ev, delivered>>

NextResolver == Resolve

SpecResolver == InitResolver /\ [][NextResolver]_vars

----------------------------------------------------------------------------
(* Properties *)

\* x occurs in s before some later occurrence of y
Before(x, y, s) == \E i, j \in 1..Len(s) : i < j /\ s[i] = x /\ s[j] = y

\* the Payroll handler has got past its Everee calls
PastCalls == ev.pc \in {"persist_create", "coord", "notify", "done"}

\* C1: in the Payroll handler, an update whose activity has a row on file
\* issues the Everee DELETE for that row's shift before the Everee create,
\* and issues the create whatever status the DELETE returned.
\* (Between the create call and its persistence the table is as the lookup
\* read it, so "on file" is read off evStore at pc = "persist_create".)
C1_DeleteBeforeCreate ==
    /\ (ev.pc = "persist_create" /\ ev.p.action = "update"
        /\ RowsOf(evStore, ev.p.key) # {})
         => Before("delete", "create", ev.trace)
    /\ (PastCalls /\ ev.p.action = "update" /\ ev.del_code \in {204, 400, 404}
        /\ ~(ev.pc = "done" /\ ev.status = 500))
         => Before("delete", "create", ev.trace)

\* C2: the resolver gives DELETE for every record whose action is delete,
\* with or without an end_ts and whatever the prior sync state.
C2_DeleteActionGivesDelete ==
    (ct.pc \in {"upsert", "dispatch", "done"} /\ ct.action = "delete")
        => ct.state = "DELETE"

\* C3: when the resolver yields null, the CT handler invokes neither the
\* Payroll function nor the scheduler function.
C3_NullInvokesNothing ==
    (ct.pc = "done" /\ ct.state = Null) => ct.invoked = <<>>

TriggerRegistered(k) == \E t \in triggers : t.name = schedule_name(k)

\* C4: the Payroll handler's coordinator step turns a stored sync state
\* into SENT only when the trigger operation for that key has succeeded:
\* the trigger is registered if the stored state was SCHEDULED, and it has
\* been cancelled (is no longer registered) if the stored state was DELETE.
C4_SentOnlyAfterTriggerOp ==
    [][\A k \in Keys :
         (ev.pc = "coord" /\ ctStore[k].sync_state # "SENT"
          /\ ctStore'[k].sync_state = "SENT")
           => /\ ctStore[k].sync_state = "SCHEDULED" => TriggerRegistered(k)
              /\ ctStore[k].sync_state = "DELETE" => ~TriggerRegistered(k)]_vars

\* C5: a redelivery carrying the business key and the content hash of the
\* stored row makes no Payroll call: the Payroll function is not invoked.
C5_SameHashNoPayrollCall ==
    (ct.pc = "done" /\ ct.found /\ ct.prior_sk = ct.df.sk)
        => ~InSeq("payroll", ct.invoked)

\* C6: a delete whose activity has a shift on file issues one Everee DELETE
\* and persists its outcome before the handler returns, for every status.
C6_DeleteOutcomePersisted ==
    (ev.pc = "done" /\ ev.p.action = "delete" /\ ev.found /\ ev.del_code \in {204, 400, 404})
        => /\ Len(SelectSeq(ev.trace, LAMBDA x : x = "delete")) = 1
           /\ InSeq("persist_delete", ev.trace)
           /\ \E r \in evStore : r.worked_shift_id = ev.wsid /\ r.status_code = ev.del_code

\* C7: an update with a shift on file persists the outcome of the DELETE
\* before it issues the create, and the outcome of the create afterwards.
C7_PersistDeleteThenCreate ==
    (ev.pc \in {"coord", "notify", "done"} /\ ev.p.action = "update" /\ ev.found
     /\ ev.create_code \in {200, 400})
        => /\ Before("persist_delete", "create", ev.trace)
           /\ Before("create", "persist_create", ev.trace)

\* C8: for a record with an end_ts and action create or update the resolved
\* state is SCHEDULED exactly when end_ts > now and SENT otherwise, whatever
\* the prior sync state.
C8_ScheduledIffFuture ==
    (res.done /\ res.end_ts # NoTs /\ res.action \in {"create", "update"})
        => res.state = IF res.end_ts > res.t THEN "SCHEDULED" ELSE "SENT"

C8_Witness ==
    /\ res.done /\ res.action = "update" /\ res.prior = "SCHEDULED"
    /\ res.end_ts = res.t /\ res.state = "SENT"

\* C9: an event whose business key has no row in the store is classified
\* create, whatever its event type.  (At pc = "upsert" the store is still
\* as the lookup read it.)
C9_NoPriorGivesCreate ==
    (ct.pc = "upsert" /\ ~ctStore[ct.df.key].present) => ct.action = "create"

C9_Witness ==
    /\ ct.pc = "upsert" /\ ~ctStore[ct.df.key].present
    /\ ct.df.event_type = "declined" /\ ct.action = "create"

\* C10: a delete or declined event whose business key has a row in the
\* store is classified delete and carries the stored sync state forward.
C10_DeleteEventGivesDelete ==
    (ct.pc = "upsert" /\ ctStore[ct.df.key].present /\ IsDeleteEvent(ct.df.event_type))
        => /\ ct.action = "delete"
           /\ ct.prior = ctStore[ct.df.key].sync_state

\* C11: an event that is not a delete or declined variant and whose business
\* key has a row in the store is classified update, never create again.
C11_PriorGivesUpdate ==
    (ct.pc = "upsert" /\ ctStore[ct.df.key].present /\ ~IsDeleteEvent(ct.df.event_type))
        => ct.action = "update"

\* C12: with no end_ts, prior sync state SCHEDULED and action create or
\* delete, the resolver gives DELETE (not SENT, not null).
C12_RetractionOverride ==
    (res.done /\ res.end_ts = NoTs /\ res.prior = "SCHEDULED"
     /\ res.action \in {"create", "delete"})
        => res.state = "DELETE"

C12_Witness ==
    /\ res.done /\ res.end_ts = NoTs /\ res.prior = "SCHEDULED"
    /\ res.action = "delete" /\ res.state = "DELETE"

\* C13: with action create or update, no end_ts and a prior sync state
\* other than SCHEDULED, the resolved sync state is SENT.
C13_NoEndTsGivesSent ==
    (ct.pc \in {"upsert", "dispatch"} /\ ct.action \in {"create", "update"}
     /\ ct.df.end_ts = NoTs /\ ct.prior # "SCHEDULED")
        => ct.state = "SENT"

Count(x, s) == Len(SelectSeq(s, LAMBDA y : y = x))

\* C14: a delete for an activity with no row in the Payroll-side table
\* makes no Everee call at all and returns status 200.
C14_DeleteWithoutRowIsNoOp ==
    (ev.pc = "done" /\ ev.p.action = "delete" /\ ~ev.on_file)
        => /\ ~InSeq("delete", ev.trace) /\ ~InSeq("create", ev.trace)
           /\ ev.del_code = -1 /\ ev.create_code = -1
           /\ ev.status = 200

C14_Witness ==
    /\ ev.pc = "done" /\ ev.p.action = "delete" /\ ~ev.on_file
    /\ ev.trace = <<"lookup">> /\ ev.status = 200

\* C15: an update for an activity with no row in the Payroll-side table
\* issues no Everee DELETE and exactly one Everee create, and has persisted
\* the outcome of that create when the handler returns.
C15_UpdateWithoutRowCreatesOnce ==
    (ev.pc = "done" /\ ev.p.action = "update" /\ ~ev.on_file)
        => /\ ~InSeq("delete", ev.trace)
           /\ Count("create", ev.trace) = 1
           /\ Before("create", "persist_create", ev.trace)

\* C16: a create persists exactly one row for every response before the
\* handler returns: status 200 under the shift id Everee assigned, any other
\* code under the placeholder business_key + "_Null".
C16_CreateOutcomePersisted ==
    (ev.pc = "done" /\ ev.p.action = "create" /\ ev.create_code \in {200, 400})
        => /\ Count("persist_create", ev.trace) = 1
           /\ \E r \in evStore :
                /\ r.key = ev.p.key /\ r.status_code = ev.create_code
                /\ r.worked_shift_id = IF ev.create_code = 200 THEN ev.new_id
                                       ELSE PlaceholderShift(ev.p.key)

\* C17: a declined event, with or without a prior record, never leads to an
\* Everee create request.
C17_DeclinedNeverCreates ==
    ev.p.event_type = "declined" => ~InSeq("create", ev.trace)

\* a declined event with no prior record reaches the handler's create
\* branch, and the branch ends without a request
C17_Witness ==
    /\ ev.pc = "coord" /\ ev.p.event_type = "declined" /\ ev.p.action = "create"
    /\ ev.create_code = 0 /\ ev.trace = <<>>

\* C18: the Payroll-side table holds at most one row per
\* (business_key, worker_id).
C18_OneRowPerKeyAndWorker ==
    \A r, q \in evStore : (r.key = q.key /\ r.worker = q.worker) => r = q

\* C19: after an upsert into the CT table the stored row equals the record
\* written, field by field: nothing of an earlier record survives, also when
\* the record written (a delete event) carries fewer fields.
\* (pc = "dispatch" is reached only through a successful upsert.)
C19_UpsertOverwritesEveryField ==
    ct.pc = "dispatch"
        => ctStore[ct.df.key] =
             [present |-> TRUE, user |-> ct.df.user, event_type |-> ct.df.event_type,
              end_ts |-> ct.df.end_ts, sk |-> ct.df.sk, action |-> ct.action,
              sync_state |-> ct.state]

\* C20: an invocation whose prior-record lookup found the store unavailable
\* fails: it does not go on to classify the event and write or dispatch it.
C20_FailedLookupFailsInvocation ==
    ~ct.lookup_ok => (ct.pc = "done" /\ ct.status = 500 /\ ct.invoked = <<>>)

----------------------------------------------------------------------------
(* One logical event processed twice in succession, every store, Everee   *)
(* and scheduler call succeeding, at one instant of the clock.  The store *)
(* starts empty or as one successfully processed create left it.          *)

\* the tables after create(A1, u1, end_ts 0) was processed at time 0
HistoryCt ==
    [k \in Keys |->
        [present |-> TRUE, user |-> "u1", event_type |-> "create", end_ts |-> 0,
         sk |-> <<"shift", "create", "u1", k, 0>>, action |-> "create",
         sync_state |-> "SENT"]]

HistoryEv ==
    {[worked_shift_id |-> RealShift(1), key |-> "A1", worker |-> "u1",
      status_code |-> 200, load_dt |-> 1]}

\* the table and the trigger after create(A1, u1, end_ts 1) was processed
\* at time 0
ScheduledCt ==
    [k \in Keys |->
        [present |-> TRUE, user |-> "u1", event_type |-> "create", end_ts |-> 1,
         sk |-> <<"shift", "create", "u1", k, 1>>, action |-> "create",
         sync_state |-> "SCHEDULED"]]

ScheduledTrigger ==
    {[name |-> schedule_name("A1"), fired |-> FALSE,
      payload |-> [key |-> "A1", worker |-> "u1", event_type |-> "create",
                   action |-> "create", sync_state |-> "SCHEDULED", end_ts |-> 1,
                   ct_timesheet_id |-> "", schedule_name |-> "",
                   schedule_action |-> ""]]}

InitIdem ==
    /\ \/ /\ now \in 0..MaxNow
          /\ ctStore = [k \in Keys |-> NoRow]
          /\ evStore = {}
          /\ loadSeq = 1
          /\ payroll = {}
          /\ nextShift = 1
          /\ triggers = {}
       \/ /\ now \in 0..MaxNow
          /\ ctStore = HistoryCt
          /\ evStore = HistoryEv
          /\ loadSeq = 2
          /\ payroll = {RealShift(1)}
          /\ nextShift = 2
          /\ triggers = {}
       \/ /\ now = 0
          /\ ctStore = ScheduledCt
          /\ evStore = {}
          /\ loadSeq = 1
          /\ payroll = {}
          /\ nextShift = 1
          /\ triggers = ScheduledTrigger
    /\ payrollQ = {}
    /\ schedQ = {}
    /\ ct = CtIdle
    /\ ev = EvIdle
    /\ delivered = 0
    /\ \E e \in Events : res = [e |-> e, n |-> 0, sync |-> Null, live |-> 0]

\* the end state of the first processing, noted when nothing is in flight
Observe ==
    /\ Quiet /\ Drained
    /\ delivered = 1 /\ res.n = 0
    /\ res' = [res EXCEPT !.n = 1, !.sync = ctStore[res.e.key].sync_state,
                          !.live = Cardinality(payroll)]
    /\ UNCHANGED <<now, ctStore, evStore, loadSeq, payroll, nextShift, payrollQ,
                   schedQ, triggers, ct, ev, delivered>>

NextIdem ==
    \/ Quiet /\ Drained /\ delivered < 2 /\ (delivered = 0 \/ res.n = 1)
         /\ CTReceive(res.e, "ids")
    \/ CTResolve(TRUE)
    \/ CTUpsert(TRUE)
    \/ CTDispatch
    \/ CTReturn
    \/ \E m \in payrollQ : Quiet /\ EvStart(m)
    \/ \E code \in {0, 204, 404} :
         /\ code = 0 => RowsOf(evStore, ev.p.key) = {}
         /\ EvProcessDelete(TRUE, code)
    \/ \E code \in {0, 200} : (code = 0 => ~HasCreateFields(ev.p)) /\ EvCreate(code)
    \/ EvPersistCreate(TRUE)
    \/ EvCoord(TRUE)
    \/ EvReturn
    \/ \E m \in schedQ : Quiet /\ SchedApply(m, TRUE)
    \/ Observe

SpecIdem == InitIdem /\ [][NextIdem]_vars

\* C21: when an event has been processed twice in succession with every
\* call succeeding, the stored sync state of its key and the number of live
\* Everee shifts are the ones its first processing left.
C21_IdempotentConvergence ==
    (Quiet /\ Drained /\ delivered = 2 /\ res.n = 1)
        => /\ ctStore[res.e.key].sync_state = res.sync
           /\ Cardinality(payroll) = res.live

\* the starting tables of SpecIdem are states the handlers produce
C21_HistorySent ==
    /\ Quiet /\ Drained /\ delivered = 1 /\ now = 0
    /\ ctStore = HistoryCt /\ evStore = HistoryEv /\ loadSeq = 2
    /\ payroll = {RealShift(1)} /\ nextShift = 2 /\ triggers = {}

C21_HistoryScheduled ==
    /\ Quiet /\ Drained /\ delivered = 1 /\ now = 0
    /\ ctStore = ScheduledCt /\ evStore = {} /\ loadSeq = 1
    /\ payroll = {} /\ nextShift = 1 /\ triggers = ScheduledTrigger

----------------------------------------------------------------------------
(* Two invocations of the Payroll handler racing on one activity id.  The  *)
(* CT handler invokes the Payroll function asynchronously, so the payloads *)
(* of two webhooks handled one after the other are processed concurrently; *)
(* each invocation's steps are the lookup and the DELETE of process_delete,*)
(* the POST of everee_create_shift and the upsert of insert_to_db.  Every  *)
(* call succeeds.  res holds the two invocations' locals.                  *)

Racers == 1..2

\* payloads the CT handler produces for events whose shift has ended
RacePayload(action, event_type) ==
    [key |-> "A1", worker |-> "u1", event_type |-> event_type, action |-> action,
     sync_state |-> IF IsDeleteEvent(event_type) THEN Null ELSE "SENT",
     end_ts |-> IF IsDeleteEvent(event_type) THEN NoTs ELSE 0,
     ct_timesheet_id |-> "", schedule_name |-> "", schedule_action |-> ""]

\* after a stored row the CT handler classifies update or delete
LaterPayloads ==
    {RacePayload("update", t) : t \in {"create", "edit"}}
        \cup {RacePayload("delete", t) : t \in {"delete", "declined"}}

RaceStart(m) ==
    [EvIdle EXCEPT !.p = m, !.pc = IF m.action = "create" THEN "create" ELSE "lookup"]

InitRace ==
    /\ now = 0
    /\ \/ /\ ctStore = [k \in Keys |-> NoRow]
          /\ evStore = {}
          /\ loadSeq = 1
          /\ payroll = {}
          /\ nextShift = 1
          /\ \E m \in LaterPayloads :
               res = [i \in Racers |-> IF i = 1
                                       THEN RaceStart(RacePayload("create", "create"))
                                       ELSE RaceStart(m)]
       \/ /\ ctStore = HistoryCt
          /\ evStore = HistoryEv
          /\ loadSeq = 2
          /\ payroll = {RealShift(1)}
          /\ nextShift = 2
          /\ \E m1 \in LaterPayloads, m2 \in LaterPayloads :
               res = [i \in Racers |-> RaceStart(IF i = 1 THEN m1 ELSE m2)]
    /\ payrollQ = {}
    /\ schedQ = {}
    /\ triggers = {}
    /\ ct = CtIdle
    /\ ev = EvIdle
    /\ delivered = 2

\* process_delete, the SELECT of the latest row
RaceLookup(i) ==
    /\ res[i].pc = "lookup"
    /\ LET rows == RowsOf(evStore, res[i].p.key) IN
       res' = [res EXCEPT ![i] =
                 IF rows = {}
                 THEN [@ EXCEPT !.pc = IF AfterProcessDelete(res[i].p.action, "none") = "create"
                                       THEN "create" ELSE "done",
                                !.trace = Append(@, "lookup")]
                 ELSE [@ EXCEPT !.pc = "delete", !.found = TRUE, !.on_file = TRUE,
                                !.wsid = LatestRow(evStore, res[i].p.key).worked_shift_id,
                                !.trace = Append(@, "lookup")]]
    /\ UNCHANGED <<now, ctStore, evStore, loadSeq, payroll, nextShift, payrollQ,
                   schedQ, triggers, ct, ev, delivered>>

\* process_delete, delete_timesheet(worked_shift_id): 204, or 404 when the
\* shift is already gone
RaceDelete(i) ==
    /\ res[i].pc = "delete"
    /\ LET id == res[i].wsid
           code == IF id \in payroll THEN 204 ELSE 404 IN
       /\ code \in DeleteResponses(payroll, id)
       /\ payroll' = payroll \ {id}
       /\ res' = [res EXCEPT ![i] =
                    [@ EXCEPT !.pc = IF AfterProcessDelete(res[i].p.action, "tuple") = "create"
                                     THEN "create" ELSE "done",
                              !.del_code = code, !.trace = Append(@, "delete")]]
    /\ UNCHANGED <<now, ctStore, evStore, loadSeq, nextShift, payrollQ, schedQ,
                   triggers, ct, ev, delivered>>

\* everee_create_shift answered 200
RaceCreate(i) ==
    /\ res[i].pc = "create"
    /\ nextShift <= MaxShift
    /\ IF ~HasCreateFields(res[i].p)
       THEN /\ res' = [res EXCEPT ![i] = [@ EXCEPT !.pc = "done", !.create_code = 0]]
            /\ UNCHANGED <<payroll, nextShift>>
       ELSE /\ payroll' = payroll \cup {RealShift(nextShift)}
            /\ nextShift' = nextShift + 1
            /\ res' = [res EXCEPT ![i] =
                         [@ EXCEPT !.pc = "upsert", !.create_code = 200,
                                   !.new_id = RealShift(nextShift),
                                   !.trace = Append(@, "create")]]
    /\ UNCHANGED <<now, ctStore, evStore, loadSeq, payrollQ, schedQ, triggers,
                   ct, ev, delivered>>

\* insert_to_db of the create outcome, one atomic statement
RaceUpsert(i) ==
    /\ res[i].pc = "upsert"
    /\ evStore' = batch_upsert_ev(evStore, loadSeq, process_res(res[i]))
    /\ loadSeq' = loadSeq + 1
    /\ res' = [res EXCEPT ![i] = [@ EXCEPT !.pc = "done",
                                           !.trace = Append(@, "persist_create")]]
    /\ UNCHANGED <<now, ctStore, payroll, nextShift, payrollQ, schedQ, triggers,
                   ct, ev, delivered>>

NextRace ==
    \/ \E i \in Racers : RaceLookup(i)
    \/ \E i \in Racers : RaceDelete(i)
    \/ \E i \in Racers : RaceCreate(i)
    \/ \E i \in Racers : RaceUpsert(i)

SpecRace == InitRace /\ [][NextRace]_vars

\* C22: when two invocations racing on one activity id have both finished,
\* Everee holds at most one live shift for it and the latest row of the
\* table names that shift.
C22_RaceLeavesOneLiveShift ==
    (\A i \in Racers : res[i].pc = "done")
        => /\ Cardinality(payroll) <= 1
           /\ payroll # {} => /\ RowsOf(evStore, "A1") # {}
                              /\ LatestRow(evStore, "A1").worked_shift_id \in payroll

----------------------------------------------------------------------------
(* Deferred sends *)

\* the CT handler has classified the event it holds
Resolved == ct.pc \in {"upsert", "dispatch"} \/ (ct.pc = "done" /\ ct.worker # "none")

\* a create event whose shift ends after the handler's clock reading and for
\* which the lookup found no prior row
FutureCreate ==
    Resolved /\ ct.df.event_type = "create" /\ ct.df.end_ts > ct.t /\ ~ct.found

C23_Handling ==
    FutureCreate
        => /\ ct.action = "create" /\ ct.state = "SCHEDULED"
           /\ (ct.pc = "done" /\ ct.status = 200)
                => /\ ct.invoked = <<"scheduler">>
                   /\ everee_timesheet_payload(ct) \in schedQ
                   /\ ctStore[ct.df.key].sync_state = "SCHEDULED"

C23_Stays ==
    \A k \in Keys :
        (ctStore[k].sync_state = "SCHEDULED" /\ ctStore'[k].sync_state # "SCHEDULED")
            => \/ ct.pc = "upsert"
               \/ /\ ev.pc = "coord"
                  /\ ev.p.ct_timesheet_id = k
                  /\ ev.p.schedule_name = schedule_name(k)
                  /\ ctStore'[k].sync_state = "SENT"

C25_DeleteOfScheduledCancels ==
    /\ (ct.pc = "upsert" /\ ct.df.event_type = "delete"
        /\ ctStore[ct.df.key].sync_state = "SCHEDULED")
          => ct.action = "delete" /\ ct.state = "DELETE"
    /\ (ct.pc = "done" /\ ct.status = 200 /\ ct.df.event_type = "delete"
        /\ ct.found /\ ct.prior = "SCHEDULED")
          => /\ InSeq("scheduler", ct.invoked)
             /\ \E m \in schedQ : m.key = ct.df.key /\ m.schedule_action = "DELETE"
    /\ \A m \in schedQ : m.schedule_action = "DELETE"
          => m.schedule_name = schedule_name(m.key)

----------------------------------------------------------------------------
(* Dispatch and results of the CT handler *)

\* C27: a dispatching CT handler invokes the Payroll function and the
\* scheduler function, once each, when the state is SCHEDULED or DELETE and
\* the table holds a shift row for the activity; only the scheduler function
\* when it holds none; only the Payroll function for any other state.
C27_DispatchByStateAndRecord ==
    (ct.pc = "done" /\ ct.status = 200)
        => ct.invoked = IF ct.state \in {"SCHEDULED", "DELETE"}
                        THEN IF RowsOf(evStore, ct.df.key) # {}
                             THEN <<"payroll", "scheduler">> ELSE <<"scheduler">>
                        ELSE <<"payroll">>

\* C28: an event for which no worker details are found is answered 404 and
\* nothing is invoked.
C28_NoWorkerGives404 ==
    (ct.pc = "done" /\ ct.worker = "none")
        => ct.status = 404 /\ ct.invoked = <<>>

\* C29: when the upsert of the record fails the handler answers 500 and
\* invokes nothing.  (With worker ids present the handler ends without a
\* dispatch only when insert_ct_timesheet_to_db returned False.)
C29_FailedUpsertGives500 ==
    (ct.pc = "done" /\ ct.worker = "ids" /\ ct.status # 200)
        => ct.status = 500 /\ ct.invoked = <<>>

\* C30: every handler invocation returns a result whose status code is 200,
\* 404 or 500.
C30_StatusAlwaysStructured ==
    /\ ct.pc = "done" => ct.status \in {200, 404, 500}
    /\ ev.pc = "done" => ev.status \in {200, 404, 500}

----------------------------------------------------------------------------
(* Fair processing with every store, Everee and scheduler call succeeding: *)
(* the worker is found with ids, a DELETE answers 204 or 404, a POST 200,  *)
(* and a step that can be taken is eventually taken.                       *)

NextLive ==
    \/ \E e \in Events : Quiet /\ Drained /\ CTReceive(e, "ids")
    \/ CTResolve(TRUE)
    \/ CTUpsert(TRUE)
    \/ CTDispatch
    \/ CTReturn
    \/ \E m \in payrollQ : Quiet /\ EvStart(m)
    \/ \E code \in {0, 204, 404} :
         /\ code = 0 => RowsOf(evStore, ev.p.key) = {}
         /\ EvProcessDelete(TRUE, code)
    \/ \E code \in {0, 200} : (code = 0 => ~HasCreateFields(ev.p)) /\ EvCreate(code)
    \/ EvPersistCreate(TRUE)
    \/ EvCoord(TRUE)
    \/ EvNotify
    \/ EvReturn
    \/ \E m \in schedQ : Quiet /\ SchedApply(m, TRUE)
    \/ \E t \in triggers : Quiet /\ TriggerFire(t)
    \/ Quiet /\ Tick

SpecLive == Init /\ [][NextLive]_vars /\ WF_vars(NextLive)

\* C26: under fair processing with every call succeeding, a key stored
\* SCHEDULED or DELETE is eventually stored SENT.
C26_EventuallySent ==
    \A k \in Keys :
        (ctStore[k].sync_state \in {"SCHEDULED", "DELETE"}) ~> (ctStore[k].sync_state = "SENT")

----------------------------------------------------------------------------
(* Results and order of operations of the Payroll handler *)

\* C31: an invocation in which Everee answered a POST or a DELETE with 400
\* persists that outcome and does not return the success result.
C31_ApiErrorSurfaced ==
    (ev.pc = "done" /\ (ev.create_code = 400 \/ ev.del_code = 400))
        => /\ ev.status # 200
           /\ ev.create_code = 400 => InSeq("persist_create", ev.trace)
           /\ ev.del_code = 400 => InSeq("persist_delete", ev.trace)

\* the kind of an operation of the Payroll handler's trace: 1 store read,
\* 2 Everee API call, 3 store write, 4 scheduler call
OpRank(x) ==
    IF x = "lookup" THEN 1
    ELSE IF x \in {"delete", "create"} THEN 2
    ELSE IF x \in {"persist_delete", "persist_create", "set_sent"} THEN 3
    ELSE 4

CountRank(n, s) == Len(SelectSeq(s, LAMBDA x : OpRank(x) = n))

\* C32: one invocation performs at most one store read, then at most two
\* Everee API calls, then at most one store write, then at most one
\* scheduler call, in that order.
C32_OneReadCallsOneWrite ==
    /\ CountRank(1, ev.trace) <= 1
    /\ CountRank(2, ev.trace) <= 2
    /\ CountRank(3, ev.trace) <= 1
    /\ CountRank(4, ev.trace) <= 1
    /\ \A i \in 1..Len(ev.trace), j \in 1..Len(ev.trace) :
          i < j => OpRank(ev.trace[i]) <= OpRank(ev.trace[j])

\* C33: the stored sync state of a key changes only in the CT handler's
\* upsert, which writes the state the resolver gave the event, or in the
\* Payroll handler's update_sync_state, which writes SENT; the Everee
\* calls and the persistence of their outcomes leave it unchanged.
C33_SyncStateFrame ==
    [][\A k \in Keys :
         ctStore'[k].sync_state # ctStore[k].sync_state
            => \/ /\ ct.pc = "upsert" /\ ct.df.key = k
                  /\ ctStore'[k].sync_state = ct.state
               \/ /\ ev.pc = "coord" /\ ev.p.ct_timesheet_id = k
                  /\ ctStore'[k].sync_state = "SENT"]_vars

\* a deferred create has been sent and persisted and its key is now SENT
C33_Witness ==
    /\ ev.pc = "notify" /\ ev.sync_sts
    /\ InSeq("persist_create", ev.trace)
    /\ ctStore[ev.p.key].sync_state = "SENT"

----------------------------------------------------------------------------
(* Worker identifiers, prior-record lookup *)

\* C34: for a record whose worker_id and external_worker_id are both empty
\* the CT handler invokes neither function and leaves no payload in flight;
\* whatever it invokes, it invokes for a record with an identifier.
C34_NoIdsNoDispatch ==
    /\ ct.worker = "noids" => /\ ct.pc # "dispatch"
                              /\ ct.invoked = <<>>
                              /\ ct.pc = "done" => Drained
    /\ ct.invoked # <<>> => ct.worker = "ids"

\* a record without identifiers has been classified and stored
C34_Witness ==
    /\ ct.pc = "done" /\ ct.worker = "noids"
    /\ ctStore[ct.df.key].present /\ ctStore[ct.df.key].sk = ct.df.sk

\* C35: when the table holds a row for the event's time_activity_id and the
\* lookup query was answered, the event is classified update or delete,
\* whichever connecteam_user_id the stored row was written for.
C35_PriorByKeyAlone ==
    (ct.pc = "upsert" /\ ct.lookup_ok /\ ctStore[ct.df.key].present)
        => ct.action \in {"update", "delete"}

----------------------------------------------------------------------------
(* Live shifts and delete targets *)

\* C36: with every call succeeding and invocations taken one at a time,
\* Everee holds at most one live shift for the key whenever no invocation
\* is in progress and no payload is in flight.
C36_AtMostOneLiveShift ==
    (Quiet /\ Drained) => Cardinality(payroll) <= 1

\* C37: the shift id of every Everee DELETE request is one Everee assigned
\* in an earlier successful create, never the placeholder <key>_Null.
C37_DeleteTargetsRealShift ==
    (ev.found /\ ev.del_code # -1)
        => /\ ev.wsid.null_of = ""
           /\ ev.wsid.n \in 1..(nextShift - 1)

----------------------------------------------------------------------------
(* The Payroll handler as a function of the event it is invoked with: the  *)
(* handler reads everee_sync_state and ct_timesheet_id with .get and       *)
(* schedule_name by index, whoever built the payload.  One invocation per  *)
(* behaviour, over the tables a create left, every outcome of every call.  *)

InvokePayloads ==
    {[key |-> "A1", worker |-> "u1", event_type |-> et, action |-> a,
      sync_state |-> st, end_ts |-> IF IsDeleteEvent(et) THEN NoTs ELSE 0,
      ct_timesheet_id |-> id, schedule_name |-> sn, schedule_action |-> ""] :
        et \in EventTypes, a \in {"create", "update", "delete"},
        st \in {"SCHEDULED", "DELETE", "SENT"}, id \in {"", "A1"},
        sn \in {"", schedule_name("A1")}}

InitInvoke ==
    /\ now = 0
    /\ \/ /\ ctStore = ScheduledCt
          /\ evStore = {}
          /\ loadSeq = 1
          /\ payroll = {}
          /\ nextShift = 1
          /\ triggers = ScheduledTrigger
       \/ /\ ctStore = HistoryCt
          /\ evStore = HistoryEv
          /\ loadSeq = 2
          /\ payroll = {RealShift(1)}
          /\ nextShift = 2
          /\ triggers = {}
    /\ \E m \in InvokePayloads : payrollQ = {m}
    /\ schedQ = {}
    /\ ct = CtIdle
    /\ ev = EvIdle
    /\ delivered = 1
    /\ res = NoRes

NextInvoke ==
    \/ \E m \in payrollQ : EvStart(m)
    \/ \E dbok \in BOOLEAN, code \in {0, 204, 400, 404} : EvProcessDelete(dbok, code)
    \/ \E code \in CreateResponses : EvCreate(code)
    \/ \E ok \in BOOLEAN : EvPersistCreate(ok)
    \/ \E ok \in BOOLEAN : EvCoord(ok)
    \/ EvNotify
    \/ EvReturn

SpecInvoke == InitInvoke /\ [][NextInvoke]_vars

----------------------------------------------------------------------------
(* Resolver pipeline, timestamp rounding *)

\* C39: in the CT handler, an event resolved DELETE was classified delete,
\* and an event classified create carries no prior sync state.
C39_DeleteStateIsDeleteAction ==
    Resolved => /\ ct.state = "DELETE" => ct.action = "delete"
                /\ ct.action = "create" => ct.prior = Null

\* a delete event for a key stored SCHEDULED has been resolved DELETE by the
\* retraction rule
C39_Witness ==
    /\ ct.pc = "upsert" /\ ct.state = "DELETE" /\ ct.action = "delete"
    /\ ct.prior = "SCHEDULED" /\ ct.df.end_ts = NoTs

\* epoch seconds the rounding is checked for: a little over one hour
MaxEpoch == 3720

\* round_to_nearest_5_minutes: utcfromtimestamp, round the minute to a
\* multiple of five (down below 2:30, up from 2:30 on), replace(minute=...,
\* second=0) and back to epoch seconds; datetime.replace raises ValueError
\* for minute = 60.  The clock's zone is UTC.
round_to_nearest_5_minutes(t) ==
    LET minutes == (t \div 60) % 60
        seconds == t % 60
        hour_start == t - minutes * 60 - seconds
    IN IF seconds > 0 \/ minutes % 5 > 0
       THEN LET rounded_minutes ==
                    IF (minutes % 5) * 60 + seconds < 150
                    THEN (minutes \div 5) * 5
                    ELSE ((minutes \div 5) + 1) * 5
            IN IF rounded_minutes \in 0..59
               THEN [raised |-> FALSE, value |-> hour_start + rounded_minutes * 60]
               ELSE [raised |-> TRUE, value |-> 0]
       ELSE [raised |-> FALSE, value |-> t]

InitRound ==
    /\ now = 0
    /\ ctStore = [k \in Keys |-> NoRow]
    /\ evStore = {}
    /\ loadSeq = 1
    /\ payroll = {}
    /\ nextShift = 1
    /\ payrollQ = {}
    /\ schedQ = {}
    /\ triggers = {}
    /\ ct = CtIdle
    /\ ev = EvIdle
    /\ delivered = 0
    /\ \E t \in 0..MaxEpoch : res = [t |-> t, done |-> FALSE, raised |-> FALSE, value |-> 0]

\* process_timesheet_data lines 188-193: round the end timestamp
Round ==
    /\ ~res.done
    /\ LET r == round_to_nearest_5_minutes(res.t) IN
       res' = [res EXCEPT !.done = TRUE, !.raised = r.raised, !.value = r.value]
    /\ UNCHANGED <<now, ctStore, evStore, loadSeq, payroll, nextShift, payrollQ,
                   schedQ, triggers, ct, ev, delivered>>

NextRound == Round

SpecRound == InitRound /\ [][NextRound]_vars

\* C40: for every epoch second t the rounding returns without raising a
\* multiple of 300 that differs from t by at most 150.
C40_RoundsToNearestFive ==
    res.done => /\ ~res.raised
                /\ res.value % 300 = 0
                /\ res.value - res.t <= 150
                /\ res.t - res.value <= 150

====
